---------------------------- MODULE Spec2Model ----------------------------
(***************************************************************************)
(* State-machine model of send_alumni_emails.py: the contact parser        *)
(* (parse_contacts, Contact.first_name), the template renderer             *)
(* (personalize), the mail sender (send_email_gmail) and the run driver    *)
(* (main).                                                                 *)
(*                                                                         *)
(* A Python str is modelled as a sequence of one-character strings, so     *)
(* that splitting, stripping, matching and title-casing are computed the   *)
(* way the code computes them.                                             *)
(***************************************************************************)
EXTENDS Integers, Sequences, FiniteSets, TLC

VARIABLES
    pc,            \* position of main
    sender_email,  \* os.getenv("EMAIL_USER")
    sender_pass,   \* os.getenv("EMAIL_PASS")
    dry_run,       \* args.dry_run
    delay,         \* args.delay, in quarter seconds
    from_name,     \* args.from_name
    text,          \* content of the file args.list, or NoFile
    chunks,        \* the non-empty stripped chunks parse_contacts iterates over
    k,             \* index of the chunk parse_contacts is at
    contacts,      \* the list of Contact
    i,             \* index of the contact the for loop of main is at
    sent,          \* the success counter of main
    conn,          \* id of the open SMTP connection, 0 when none is open
    conns,         \* number of connections opened so far
    exc,           \* exception in flight: "none", "auth" or "other"
    log            \* everything observable, in order: printed lines, connections
                   \* opened and closed, messages transmitted, sleeps

\* the environment and the command line: read, never written
env == <<sender_email, sender_pass>>
args == <<dry_run, delay, from_name, text>>

vars == <<pc, env, args, chunks, k, contacts, i, sent, conn, conns, exc, log>>

-----------------------------------------------------------------------------
(* Bounds of the model *)

\* longest text the parser is run on, in characters
MaxLen == 4

\* largest number of comma-separated entries in the file main reads
MaxEntries == 2

-----------------------------------------------------------------------------
(* Strings *)

Range(s) == {s[n] : n \in 1..Len(s)}

\* the characters str.strip() and the regex class \s treat as whitespace
WS == {" ", "\t"}

\* the characters texts are built from
Chars == {"a", "B", "@", "<", ">", " ", "\t", ",", ".", "_"}

RECURSIVE LStripChars(_, _)
LStripChars(s, cs) ==
    IF s # <<>> /\ Head(s) \in cs THEN LStripChars(Tail(s), cs) ELSE s

RECURSIVE RStripChars(_, _)
RStripChars(s, cs) ==
    IF s # <<>> /\ s[Len(s)] \in cs
    THEN RStripChars(SubSeq(s, 1, Len(s) - 1), cs)
    ELSE s

\* str.strip(chars)
StripChars(s, cs) == RStripChars(LStripChars(s, cs), cs)

\* str.strip()
Strip(s) == StripChars(s, WS)

\* str.split(sep): one more piece than there are separators
RECURSIVE Split(_, _)
Split(s, sep) ==
    IF \E n \in 1..Len(s) : s[n] = sep
    THEN LET p == CHOOSE n \in 1..Len(s) :
                      s[n] = sep /\ \A m \in 1..(n - 1) : s[m] # sep
         IN <<SubSeq(s, 1, p - 1)>> \o Split(SubSeq(s, p + 1, Len(s)), sep)
    ELSE <<s>>

\* str.split(sep, 1)[0]
BeforeFirst(s, sep) == Split(s, sep)[1]

\* str.replace(old, new) for single characters
Replace(s, old, new) == [n \in 1..Len(s) |-> IF s[n] = old THEN new ELSE s[n]]

Lowers == {"a", "b"}
Uppers == {"A", "B"}
Cased == Lowers \cup Uppers

Upper(c) == IF c = "a" THEN "A" ELSE IF c = "b" THEN "B" ELSE c
Lower(c) == IF c = "A" THEN "a" ELSE IF c = "B" THEN "b" ELSE c

\* str.title(): a cased character is upper-cased when the character before it
\* is not cased, lower-cased when it is
Title(s) ==
    [n \in 1..Len(s) |->
        IF s[n] \in Cased
        THEN IF n > 1 /\ s[n - 1] \in Cased THEN Lower(s[n]) ELSE Upper(s[n])
        ELSE s[n]]

-----------------------------------------------------------------------------
(* Contact and the contact parser *)

Contact(display_name, email) == [display_name |-> display_name, email |-> email]

\* Every way CONTACT_RE, \s*([^<]+?)\s*<\s*([^>]+)\s*>\s*, matches the whole of
\* raw: raw[1..a] is the leading \s*, raw[a+1..b] group 1, raw[b+1..lt-1] \s*,
\* raw[lt] the "<", raw[lt+1..c] \s*, raw[c+1..d] group 2, raw[d+1..gt-1] \s*,
\* raw[gt] the ">" and raw[gt+1..] the trailing \s*.
CONTACT_RE(raw) ==
    LET n == Len(raw)
        AllWS(lo, hi) == \A m \in lo..hi : raw[m] \in WS
        Lts == {m \in 1..n : raw[m] = "<"}
        Gts == {m \in 1..n : raw[m] = ">"}
    IN UNION { UNION {
         { [a |-> q[1], b |-> q[2], lt |-> lt, c |-> q[3], d |-> q[4], gt |-> gt] :
             q \in { r \in (0..(lt - 1)) \X (0..(lt - 1)) \X (lt..(gt - 1)) \X (lt..(gt - 1)) :
                       /\ AllWS(1, r[1])
                       /\ r[2] > r[1]
                       /\ \A m \in (r[1] + 1)..r[2] : raw[m] # "<"
                       /\ AllWS(r[2] + 1, lt - 1)
                       /\ r[3] <= r[4]
                       /\ AllWS(lt + 1, r[3])
                       /\ r[4] > r[3]
                       /\ \A m \in (r[3] + 1)..r[4] : raw[m] # ">"
                       /\ AllWS(r[4] + 1, gt - 1)
                       /\ AllWS(gt + 1, n) } }
         : gt \in {g \in Gts : g > lt} } : lt \in Lts }

\* The match the backtracking matcher returns: each \s* and group 2 are
\* greedy (longest first), group 1 is lazy (shortest first), tried left to
\* right.
Prefers(m1, m2) ==
    LET key(m) == <<0 - m.a, m.b, 0 - m.lt, 0 - m.c, 0 - m.d, 0 - m.gt>>
        k1 == key(m1)
        k2 == key(m2)
    IN \/ k1 = k2
       \/ \E p \in 1..6 : k1[p] < k2[p] /\ \A o \in 1..(p - 1) : k1[o] = k2[o]

\* CONTACT_RE.fullmatch(raw): the groups of the match, or <<>> for None
fullmatch(raw) ==
    LET ms == CONTACT_RE(raw)
    IN IF ms = {} THEN <<>>
       ELSE LET m == CHOOSE m1 \in ms : \A m2 \in ms : Prefers(m1, m2)
            IN <<SubSeq(raw, m.a + 1, m.b), SubSeq(raw, m.c + 1, m.d)>>

\* raw.strip("<> ")
email_candidate(raw) == StripChars(raw, {"<", ">", " "})

\* the test of the fallback branch: "@" in email_candidate and " " not in it
is_bare_email(cand) == "@" \in Range(cand) /\ " " \notin Range(cand)

\* local.replace(".", " ").replace("_", " ").title()
inferred(local) == Title(Replace(Replace(local, ".", " "), "_", " "))

\* The body of the for loop of parse_contacts on one chunk: what is appended
\* to contacts and what is printed.
parse_chunk(raw) ==
    LET m == fullmatch(raw)
    IN IF m # <<>>
       THEN [contacts |-> <<Contact(Strip(m[1]), Strip(m[2]))>>, printed |-> <<>>]
       ELSE LET cand == email_candidate(raw)
            IN IF is_bare_email(cand)
               THEN [contacts |-> <<Contact(inferred(BeforeFirst(cand, "@")), cand)>>,
                     printed |-> <<>>]
               ELSE [contacts |-> <<>>, printed |-> <<<<"warning", raw>>>>]

\* stripped_chunks without the filter: empty chunks stay in
stripped_chunks_unfiltered(t) ==
    LET pieces == Split(t, ",")
    IN [n \in 1..Len(pieces) |-> Strip(pieces[n])]

\* filter(None, (chunk.strip() for chunk in text.split(",")))
stripped_chunks(t) ==
    LET pieces == Split(t, ",")
        stripped == [n \in 1..Len(pieces) |-> Strip(pieces[n])]
    IN SelectSeq(stripped, LAMBDA c : c # <<>>)

\* Contact.first_name
first_name(c) ==
    LET name == Strip(c.display_name)
    IN IF name = <<>> THEN <<>>
       ELSE LET ws == {n \in 1..Len(name) : name[n] \in WS}
                first == IF ws = {} THEN name
                         ELSE SubSeq(name, 1,
                                (CHOOSE n \in ws : \A m \in ws : n <= m) - 1)
            IN StripChars(first, {","})

-----------------------------------------------------------------------------
(* The template renderer *)

\* TEMPLATE: its characters, the placeholder {{alumni_name}} standing as one
\* token, the text after "Hi {{alumni_name}}," cut short
TEMPLATE == <<"H", "i", " ", "{{alumni_name}}", ",", "\n">>

RECURSIVE personalize(_, _)
\* template.replace("{{alumni_name}}", first_name or "there")
personalize(template, first) ==
    IF template = <<>> THEN <<>>
    ELSE (IF Head(template) = "{{alumni_name}}"
          THEN IF first # <<>> THEN first ELSE <<"t", "h", "e", "r", "e">>
          ELSE <<Head(template)>>) \o personalize(Tail(template), first)

DEFAULT_SUBJECT == "Support Columbia Wushu October 21st Columbia Giving Day"

-----------------------------------------------------------------------------
(* Inputs of a run *)

\* os.getenv of a variable that is not set
None == "None"

\* what EMAIL_USER and EMAIL_PASS may hold
EnvValues == {None, "", "secret"}

\* --from-name: empty, or the default
FromNames == {"", "Columbia Wushu Team"}

\* --delay in quarter seconds: -1.0 and the default 3.0 (values time.sleep
\* takes once clamped; it is not modelled on inf or on values it overflows on)
Delays == {-4, 12}

\* random.uniform(0.0, 0.75) in quarter seconds: the two ends of the range
Jitters == {0, 3}

\* the file args.list does not exist
NoFile == <<"NoFile">>

\* entries a list file is made of: "B a <a@a>", "a.b@a", "a a", " "
Entries ==
    { <<"B", " ", "a", " ", "<", "a", "@", "a", ">">>,
      <<"a", ".", "b", "@", "a">>,
      <<"a", " ", "a">>,
      <<" ">> }

RECURSIVE Join(_)
\* ",".join(es)
Join(es) ==
    IF es = <<>> THEN <<>>
    ELSE IF Len(es) = 1 THEN es[1]
    ELSE es[1] \o <<",">> \o Join(Tail(es))

\* the list files main is run on: up to MaxEntries entries, comma-separated
FileTexts ==
    { Join(es) : es \in UNION { [1..n -> Entries] : n \in 0..MaxEntries } }

\* every text of at most MaxLen characters
Texts == UNION { [1..n -> Chars] : n \in 0..MaxLen }

-----------------------------------------------------------------------------
(* main, up to the for loop *)

Falsy(v) == v = None \/ v = ""

Init ==
    /\ pc = "main"
    /\ sender_email \in EnvValues
    /\ sender_pass \in EnvValues
    /\ dry_run \in BOOLEAN
    /\ delay \in Delays
    /\ from_name \in FromNames
    /\ text \in FileTexts \cup {NoFile}
    /\ chunks = <<>>
    /\ k = 0
    /\ contacts = <<>>
    /\ i = 0
    /\ sent = 0
    /\ conn = 0
    /\ conns = 0
    /\ exc = "none"
    /\ log = <<>>

\* main_credentials checking EMAIL_USER alone
main_credentials_email_only ==
    /\ pc = "main"
    /\ IF Falsy(sender_email)
       THEN /\ pc' = "SystemExit"
            /\ log' = Append(log, <<"SystemExit", "Missing EMAIL_USER or EMAIL_PASS in environment.">>)
       ELSE /\ pc' = "load_contacts_from_file"
            /\ log' = log
    /\ UNCHANGED <<env, args, chunks, k, contacts, i, sent, conn, conns, exc>>

\* load_dotenv, os.getenv and the check of the two credentials
main_credentials ==
    /\ pc = "main"
    /\ IF Falsy(sender_email) \/ Falsy(sender_pass)
       THEN /\ pc' = "SystemExit"
            /\ log' = Append(log, <<"SystemExit", "Missing EMAIL_USER or EMAIL_PASS in environment.">>)
       ELSE /\ pc' = "load_contacts_from_file"
            /\ log' = log
    /\ UNCHANGED <<env, args, chunks, k,
                   contacts, i, sent, conn, conns, exc>>

\* open and read the file, then the start of parse_contacts: an empty list and
\* the chunks to go through
load_contacts_from_file ==
    /\ pc = "load_contacts_from_file"
    /\ IF text = NoFile
       THEN /\ pc' = "raised"
            /\ exc' = "other"
            /\ UNCHANGED <<chunks, k, contacts>>
       ELSE /\ pc' = "parse_contacts"
            /\ chunks' = stripped_chunks(text)
            /\ k' = 1
            /\ contacts' = <<>>
            /\ exc' = exc
    /\ UNCHANGED <<env, args, i, sent,
                   conn, conns, log>>

\* one turn of the for loop of parse_contacts
parse_contacts_chunk ==
    /\ pc = "parse_contacts"
    /\ k <= Len(chunks)
    /\ LET r == parse_chunk(chunks[k])
       IN /\ contacts' = contacts \o r.contacts
          /\ log' = log \o r.printed
    /\ k' = k + 1
    /\ UNCHANGED <<pc, env, args, chunks,
                   i, sent, conn, conns, exc>>

\* return contacts
parse_contacts_return ==
    /\ pc = "parse_contacts"
    /\ k > Len(chunks)
    /\ pc' = "loaded"
    /\ UNCHANGED <<env, args, chunks, k,
                   contacts, i, sent, conn, conns, exc, log>>

\* the check of the list, the "Found" line and sent = 0
main_contacts ==
    /\ pc = "loaded"
    /\ IF contacts = <<>>
       THEN /\ pc' = "SystemExit"
            /\ log' = Append(log, <<"SystemExit", "No contacts found. Check your list format.">>)
            /\ UNCHANGED <<i, sent>>
       ELSE /\ pc' = "for"
            /\ log' = Append(log, <<"Found", Len(contacts), dry_run>>)
            /\ i' = 1
            /\ sent' = 0
    /\ UNCHANGED <<env, args, chunks, k,
                   contacts, conn, conns, exc>>

-----------------------------------------------------------------------------
(* The for loop of main *)

\* the loop is through: the "Done" line
main_summary ==
    /\ pc = "for"
    /\ i > Len(contacts)
    /\ log' = Append(log, <<"Done", sent, Len(contacts)>>)
    /\ pc' = "done"
    /\ UNCHANGED <<env, args, chunks, k, contacts, i, sent, conn, conns, exc>>

\* the body of a message: personalize(TEMPLATE, c.first_name)
body(c) == personalize(TEMPLATE, first_name(c))

\* a turn of the loop under --dry-run: the four printed lines
main_dry_run ==
    /\ pc = "for"
    /\ i <= Len(contacts)
    /\ dry_run
    /\ LET c == contacts[i]
       IN log' = log \o << <<"-">>,
                           <<"TO", c.display_name, c.email>>,
                           <<"SUBJECT", DEFAULT_SUBJECT>>,
                           <<"BODY", body(c)>> >>
    /\ i' = i + 1
    /\ UNCHANGED <<pc, env, args, chunks, k, contacts, sent, conn, conns, exc>>

\* main_send taken whatever --dry-run says
main_send_any_mode ==
    /\ pc = "for"
    /\ i <= Len(contacts)
    /\ log' = Append(log, <<"send_email_gmail", i, contacts[i].email>>)
    /\ pc' = "SMTP"
    /\ UNCHANGED <<env, args, chunks, k, contacts, i, sent, conn, conns, exc>>

\* a turn of the loop without --dry-run: the call of send_email_gmail
main_send ==
    /\ pc = "for"
    /\ i <= Len(contacts)
    /\ ~dry_run
    /\ log' = Append(log, <<"send_email_gmail", i, contacts[i].email>>)
    /\ pc' = "SMTP"
    /\ UNCHANGED <<env, args, chunks, k, contacts, i, sent, conn, conns, exc>>

-----------------------------------------------------------------------------
(* send_email_gmail *)

\* the message send_email_gmail builds for the contact main is at
msg ==
    [From |-> IF from_name # "" THEN <<from_name, sender_email>> ELSE <<sender_email>>,
     To |-> contacts[i].email,
     Subject |-> DEFAULT_SUBJECT,
     Body |-> body(contacts[i])]

\* smtplib.SMTP("smtp.gmail.com", 587): the connection is made, or the
\* constructor raises and the with block is never entered
smtp_connect ==
    /\ pc = "SMTP"
    /\ \/ /\ conns' = conns + 1
          /\ conn' = conns + 1
          /\ log' = Append(log, <<"open", conns + 1>>)
          /\ pc' = "ehlo"
          /\ exc' = exc
       \/ /\ exc' = "other"
          /\ pc' = "except"
          /\ UNCHANGED <<conn, conns, log>>
    /\ UNCHANGED <<env, args, chunks, k, contacts, i, sent>>

\* a call on the server inside the with block that returns, or raises an
\* error other than SMTPAuthenticationError
smtp_call(at, next) ==
    /\ pc = at
    /\ \/ /\ pc' = next
          /\ exc' = exc
       \/ /\ exc' = "other"
          /\ pc' = "__exit__"
    /\ UNCHANGED <<env, args, chunks, k, contacts, i, sent, conn, conns, log>>

\* server.ehlo()
smtp_ehlo == smtp_call("ehlo", "starttls")

\* server.starttls()
smtp_starttls == smtp_call("starttls", "ehlo2")

\* the second server.ehlo()
smtp_ehlo2 == smtp_call("ehlo2", "login")

\* server.login(sender_email, sender_pass): accepted, rejected
\* (SMTPAuthenticationError), or another error
smtp_login ==
    /\ pc = "login"
    /\ \/ /\ pc' = "send_message"
          /\ exc' = exc
       \/ /\ exc' = "auth"
          /\ pc' = "__exit__"
       \/ /\ exc' = "other"
          /\ pc' = "__exit__"
    /\ UNCHANGED <<env, args, chunks, k, contacts, i, sent, conn, conns, log>>

\* server.send_message(msg)
smtp_send_message ==
    /\ pc = "send_message"
    /\ \/ /\ log' = Append(log, <<"send_message", conn, msg>>)
          /\ exc' = exc
       \/ /\ exc' = "other"
          /\ log' = log
    /\ pc' = "__exit__"
    /\ UNCHANGED <<env, args, chunks, k, contacts, i, sent, conn, conns>>

\* smtp_exit closing the connection only when the block returned
smtp_exit_leaks_on_error ==
    /\ pc = "__exit__"
    /\ IF exc = "none"
       THEN /\ log' = Append(log, <<"close", conn>>)
            /\ conn' = 0
       ELSE UNCHANGED <<log, conn>>
    /\ pc' = IF exc = "none" THEN "returned" ELSE "except"
    /\ UNCHANGED <<env, args, chunks, k, contacts, i, sent, conns, exc>>

\* the end of the with block, reached on return and on every exception: the
\* connection is closed, then the call returns or the exception goes on
\* (SMTP.__exit__ is taken to close without raising an error of its own)
smtp_exit ==
    /\ pc = "__exit__"
    /\ log' = Append(log, <<"close", conn>>)
    /\ conn' = 0
    /\ pc' = IF exc = "none" THEN "returned" ELSE "except"
    /\ UNCHANGED <<env, args, chunks, k, contacts, i, sent, conns, exc>>

-----------------------------------------------------------------------------
(* main after the call *)

\* main_sent without sent += 1
main_sent_uncounted ==
    /\ pc = "returned"
    /\ log' = Append(log, <<"Sent", contacts[i].display_name, contacts[i].email>>)
    /\ pc' = "sleep"
    /\ UNCHANGED <<env, args, chunks, k, contacts, i, sent, conn, conns, exc>>

\* the call returned: the "Sent" line and sent += 1
main_sent ==
    /\ pc = "returned"
    /\ log' = Append(log, <<"Sent", contacts[i].display_name, contacts[i].email>>)
    /\ sent' = sent + 1
    /\ pc' = "sleep"
    /\ UNCHANGED <<env, args, chunks, k, contacts, i, conn, conns, exc>>

\* main_except_auth without the raise: the diagnostic, and the loop goes on
main_except_auth_swallowed ==
    /\ pc = "except"
    /\ exc = "auth"
    /\ log' = Append(log, <<"Authentication failed">>)
    /\ exc' = "none"
    /\ pc' = "sleep"
    /\ UNCHANGED <<env, args, chunks, k, contacts, i, sent, conn, conns>>

\* except smtplib.SMTPAuthenticationError: the diagnostic, then raise
main_except_auth ==
    /\ pc = "except"
    /\ exc = "auth"
    /\ log' = Append(log, <<"Authentication failed">>)
    /\ pc' = "raised"
    /\ UNCHANGED <<env, args, chunks, k, contacts, i, sent, conn, conns, exc>>

\* main_except_other sending to the same contact again
main_except_other_retry ==
    /\ pc = "except"
    /\ exc = "other"
    /\ log' = Append(log, <<"Failed", contacts[i].display_name, contacts[i].email>>)
    /\ exc' = "none"
    /\ pc' = "for"
    /\ UNCHANGED <<env, args, chunks, k, contacts, i, sent, conn, conns>>

\* main_except_other going on to the next contact without the sleep
main_except_other_continue ==
    /\ pc = "except"
    /\ exc = "other"
    /\ log' = Append(log, <<"Failed", contacts[i].display_name, contacts[i].email>>)
    /\ exc' = "none"
    /\ i' = i + 1
    /\ pc' = "for"
    /\ UNCHANGED <<env, args, chunks, k, contacts, sent, conn, conns>>

\* except Exception: the "Failed" line, and the loop goes on
main_except_other ==
    /\ pc = "except"
    /\ exc = "other"
    /\ log' = Append(log, <<"Failed", contacts[i].display_name, contacts[i].email>>)
    /\ exc' = "none"
    /\ pc' = "sleep"
    /\ UNCHANGED <<env, args, chunks, k, contacts, i, sent, conn, conns>>

\* max(0.0, args.delay)
clamped(d) == IF d > 0 THEN d ELSE 0

\* time.sleep(max(0.0, args.delay) + random.uniform(0.0, 0.75)), then the next
\* contact
main_sleep ==
    /\ pc = "sleep"
    /\ \E jitter \in Jitters : log' = Append(log, <<"sleep", clamped(delay) + jitter>>)
    /\ i' = i + 1
    /\ pc' = "for"
    /\ UNCHANGED <<env, args, chunks, k, contacts, sent, conn, conns, exc>>

-----------------------------------------------------------------------------
(* The specifications *)

Next ==
    \/ main_credentials
    \/ load_contacts_from_file
    \/ parse_contacts_chunk
    \/ parse_contacts_return
    \/ main_contacts
    \/ main_summary
    \/ main_dry_run
    \/ main_send
    \/ smtp_connect
    \/ smtp_ehlo
    \/ smtp_starttls
    \/ smtp_ehlo2
    \/ smtp_login
    \/ smtp_send_message
    \/ smtp_exit
    \/ main_sent
    \/ main_except_auth
    \/ main_except_other
    \/ main_sleep

\* a run of main
Spec == Init /\ [][Next]_vars

\* load_contacts_from_file on every text of at most MaxLen characters
InitParse ==
    /\ pc = "load_contacts_from_file"
    /\ sender_email = "secret"
    /\ sender_pass = "secret"
    /\ dry_run = TRUE
    /\ delay = 12
    /\ from_name = "Columbia Wushu Team"
    /\ text \in Texts
    /\ chunks = <<>>
    /\ k = 0
    /\ contacts = <<>>
    /\ i = 0
    /\ sent = 0
    /\ conn = 0
    /\ conns = 0
    /\ exc = "none"
    /\ log = <<>>

NextParse ==
    \/ load_contacts_from_file
    \/ parse_contacts_chunk
    \/ parse_contacts_return

SpecParse == InitParse /\ [][NextParse]_vars

-----------------------------------------------------------------------------
(* Reading the log *)

Positions(kind) == {p \in 1..Len(log) : log[p][1] = kind}

Count(kind) == Cardinality(Positions(kind))

\* the positions of the log after p and before the next call of
\* send_email_gmail
AfterCall(p) ==
    {q \in (p + 1)..Len(log) :
        \A r \in (p + 1)..q : log[r][1] # "send_email_gmail"}

\* the call of send_email_gmail at p is followed by another one
HasNextCall(p) == \E q \in (p + 1)..Len(log) : log[q][1] = "send_email_gmail"

\* the position of the last call of send_email_gmail
LastCall == CHOOSE p \in Positions("send_email_gmail") :
                \A q \in Positions("send_email_gmail") : q <= p

CredentialsAbsent == Falsy(sender_email) \/ Falsy(sender_pass)

-----------------------------------------------------------------------------
(* C1 *)

\* While an authentication failure is in flight or has ended the run, the
\* log after the failed call holds the one connection of that call, its
\* release and the diagnostic, and nothing else.
AuthFailureState ==
    exc = "auth" =>
        /\ pc \in {"__exit__", "except", "raised"}
        /\ log[LastCall][2] = i
        /\ \A q \in AfterCall(LastCall) :
               log[q][1] \in {"open", "close", "Authentication failed"}
        /\ Cardinality({q \in AfterCall(LastCall) : log[q][1] = "open"}) = 1
        /\ Count("Done") = 0
        /\ pc = "raised" => log[Len(log)][1] = "Authentication failed"

\* An authentication failure stays: the only steps after it are the release of
\* the connection and the diagnostic, and no step follows the re-raise.
AuthFailureStep ==
    exc = "auth" =>
        /\ exc' = "auth"
        /\ pc # "raised"
        /\ pc' \in {"except", "raised"}
        /\ i' = i

\* C1: in a non-dry run, once a send attempt ends in an authentication
\* failure the run terminates right after the diagnostic is printed: no send
\* attempt is made for a later contact, no connection is opened again, and
\* the "Done" summary is never printed.
C1_AuthFailureAborts == []AuthFailureState /\ [][AuthFailureStep]_vars

\* an authentication failure with a contact left in the list
C1_Witness ==
    /\ pc = "raised"
    /\ exc = "auth"
    /\ ~dry_run
    /\ i < Len(contacts)

-----------------------------------------------------------------------------
(* C2 *)

\* the calls of send_email_gmail, in order
Attempts == SelectSeq(log, LAMBDA e : e[1] = "send_email_gmail")

\* C2: in a non-dry run without an authentication failure the send attempts
\* are the parsed list in input order, one attempt per entry, duplicates
\* included: a send that fails with another error is reported for that
\* contact, is not retried, and the loop goes on with the next contact.
C2_OneAttemptPerContactInOrder ==
    /\ Len(Attempts) <= Len(contacts)
    /\ \A n \in 1..Len(Attempts) :
           Attempts[n] = <<"send_email_gmail", n, contacts[n].email>>
    /\ \A q \in Positions("Failed") :
           /\ \E p \in Positions("send_email_gmail") :
                  /\ q \in AfterCall(p)
                  /\ log[q][3] = log[p][3]
                  /\ log[q][2] = contacts[log[p][2]].display_name
                  /\ \A r \in AfterCall(p) :
                         log[r][1] \in {"Failed", "Sent"} => r = q
    /\ (pc = "sleep" /\ ~dry_run) => Len(Attempts) = i
    /\ (pc = "for" /\ ~dry_run) => Len(Attempts) = i - 1
    /\ (pc = "done" /\ ~dry_run) => Len(Attempts) = Len(contacts)

\* a run through a list with the same contact twice, whose first send failed
C2_Witness ==
    /\ pc = "done"
    /\ ~dry_run
    /\ Len(contacts) >= 2
    /\ contacts[1] = contacts[2]
    /\ \E q \in Positions("Failed") : q < LastCall

-----------------------------------------------------------------------------
(* C3 *)

\* the lines printed for contact c under --dry-run
Block(c) ==
    << <<"-">>,
       <<"TO", c.display_name, c.email>>,
       <<"SUBJECT", DEFAULT_SUBJECT>>,
       <<"BODY", body(c)>> >>

\* C3: with --dry-run no connection is opened and no sleep is made, for every
\* non-empty list: each contact gives one printed block (separator, TO,
\* SUBJECT, body), in list order.
C3_DryRunOnlyPrints ==
    dry_run =>
        /\ conn = 0
        /\ conns = 0
        /\ Count("open") = 0
        /\ Count("send_email_gmail") = 0
        /\ Count("send_message") = 0
        /\ Count("sleep") = 0
        /\ pc \in {"for", "done"} =>
               LET found == CHOOSE p \in Positions("Found") : TRUE
                   done == i - 1
               IN /\ Len(log) = found + 4 * done + (IF pc = "done" THEN 1 ELSE 0)
                  /\ \A n \in 1..done :
                         SubSeq(log, found + 4 * n - 3, found + 4 * n) = Block(contacts[n])
                  /\ pc = "done" => done = Len(contacts)

\* a dry run through two contacts
C3_Witness ==
    /\ dry_run
    /\ pc = "done"
    /\ Len(contacts) >= 2
    /\ Count("TO") = Len(contacts)

-----------------------------------------------------------------------------
(* C4 *)

\* The counter is the number of messages the server took in calls that main
\* has seen return, and is at most the number of calls made; the summary gives the counter and the length of the
\* list, which is the number of calls made.
CounterState ==
    ~dry_run =>
        /\ sent <= Count("send_email_gmail")
        /\ sent = IF pc = "returned" \/ (pc = "__exit__" /\ exc = "none")
                  THEN Count("send_message") - 1
                  ELSE Count("send_message")
        /\ pc = "done" =>
               /\ log[Len(log)] = <<"Done", sent, Len(contacts)>>
               /\ Count("send_email_gmail") = Len(contacts)
               /\ sent = Count("Sent")
               /\ sent + Count("Failed") = Len(contacts)

\* C4: when a non-dry run reaches the summary, the success count it reports
\* is the number of contacts whose send completed without error and the total
\* is the number of contacts attempted, every contact of the list; in the
\* loop the counter never decreases and never exceeds the number of contacts
\* attempted so far.
C4_SummaryCounts == []CounterState /\ [][sent' >= sent]_vars

\* the summary "1/2": one send of two failed with a recoverable error
C4_Witness ==
    /\ pc = "done"
    /\ ~dry_run
    /\ Len(contacts) = 2
    /\ sent = 1
    /\ log[Len(log)] = <<"Done", 1, 2>>

-----------------------------------------------------------------------------
(* C6 *)

\* what is in the log when nothing was sent, opened, slept or printed as a
\* message: warnings of the parser and the message of the exit
NothingDone ==
    /\ \A p \in 1..Len(log) : log[p][1] \in {"warning", "SystemExit"}
    /\ conn = 0
    /\ conns = 0
    /\ i = 0

ConfigErrorState ==
    /\ CredentialsAbsent =>
           /\ pc \in {"main", "SystemExit"}
           /\ chunks = <<>> /\ k = 0 /\ contacts = <<>>
           /\ NothingDone
           /\ Count("warning") = 0
           /\ pc = "SystemExit" =>
                  log = << <<"SystemExit", "Missing EMAIL_USER or EMAIL_PASS in environment.">> >>
    /\ (~CredentialsAbsent /\ contacts = <<>>
            /\ pc \notin {"main", "load_contacts_from_file", "parse_contacts", "raised"}) =>
           /\ pc \in {"loaded", "SystemExit"}
           /\ NothingDone
           /\ pc = "SystemExit" =>
                  log[Len(log)] = <<"SystemExit", "No contacts found. Check your list format.">>

ConfigErrorStep ==
    /\ CredentialsAbsent => pc' = "SystemExit"
    /\ (pc = "loaded" /\ contacts = <<>>) => pc' = "SystemExit"
    /\ pc # "SystemExit"

\* C6: if a credential is absent, or the list parses to no contact, the run
\* ends in a fatal error with a message before any send attempt, connection,
\* sleep or message block, with or without --dry-run; the credentials are
\* checked before the list file is read.
C6_ConfigErrorsAreFatal == []ConfigErrorState /\ [][ConfigErrorStep]_vars

\* a list of entries none of which is recognized
C6_Witness ==
    /\ pc = "SystemExit"
    /\ ~CredentialsAbsent
    /\ chunks # <<>>
    /\ contacts = <<>>
    /\ Count("warning") = Len(chunks)

-----------------------------------------------------------------------------
(* C7 *)

InWithBlock == pc \in {"ehlo", "starttls", "ehlo2", "login", "send_message", "__exit__"}

\* C7: each call of send_email_gmail opens its own connection and releases it
\* on every exit path: at most one connection is open at a time, none is open
\* when the next attempt begins or when the run ends, and no connection is
\* used for two messages.
C7_ConnectionScoped ==
    /\ conn # 0 <=> InWithBlock
    /\ conn # 0 => conn = conns
    /\ Count("open") = conns
    /\ Count("close") = IF conn # 0 THEN conns - 1 ELSE conns
    /\ \A p \in Positions("open") :
           /\ log[p][2] = Cardinality({q \in Positions("open") : q <= p})
           /\ \A q \in Positions("open") :
                  p < q => \E r \in Positions("close") :
                               p < r /\ r < q /\ log[r][2] = log[p][2]
    /\ \A p \in Positions("send_email_gmail") :
           Cardinality({q \in AfterCall(p) : log[q][1] = "open"}) <= 1
    /\ \A p \in Positions("send_message") :
           /\ \A q \in Positions("send_message") : log[p][2] = log[q][2] => p = q
           /\ \E o \in Positions("open") :
                  /\ o < p
                  /\ log[o][2] = log[p][2]
                  /\ \A r \in Positions("close") : r < p => log[r][2] # log[p][2]

\* the second call ended in an authentication failure and its connection,
\* like the first, was released
C7_Witness ==
    /\ pc = "raised"
    /\ exc = "auth"
    /\ conn = 0
    /\ conns = 2
    /\ Count("close") = 2

-----------------------------------------------------------------------------
(* C8 *)

Sleeps(p) == {q \in AfterCall(p) : log[q][1] = "sleep"}

\* C8: in a non-dry run every send attempt that ends in success or in a
\* recoverable failure is followed by exactly one pause, which is over before
\* the attempt for the next recipient begins; no pause follows an attempt
\* that ends in an authentication failure.
C8_OnePauseAfterEachAttempt ==
    /\ \A p \in Positions("send_email_gmail") :
           /\ Cardinality(Sleeps(p)) <= 1
           /\ \A q \in Sleeps(p) :
                  \E r \in AfterCall(p) : r < q /\ log[r][1] \in {"Sent", "Failed"}
           /\ (HasNextCall(p) \/ pc \in {"for", "done"}) => Cardinality(Sleeps(p)) = 1
           /\ (\E r \in AfterCall(p) : log[r][1] \in {"Sent", "Failed"}) /\ pc # "sleep"
                  => Cardinality(Sleeps(p)) = 1
    /\ exc = "auth" => Sleeps(LastCall) = {}
    /\ Count("sleep") = IF pc = "sleep" THEN Count("Sent") + Count("Failed") - 1
                        ELSE Count("Sent") + Count("Failed")

\* a pause after a failed send, then the next attempt
C8_Witness ==
    \E p \in Positions("Failed") :
        /\ p + 2 \in Positions("send_email_gmail")
        /\ log[p + 1][1] = "sleep"

-----------------------------------------------------------------------------
(* C5 *)

\* C5: every Contact parse_contacts returns has a non-empty email with an "@"
\* in it; an entry whose email would be empty or without "@", such as
\* "Name <foo>" or "Name < >", is dropped.
C5_EveryContactHasEmailWithAt ==
    \A n \in 1..Len(contacts) :
        /\ contacts[n].email # <<>>
        /\ "@" \in Range(contacts[n].email)

-----------------------------------------------------------------------------
(* C9 *)

\* The entries of a text, read off the positions of its commas: for each
\* stretch between two commas (or an end of the text) that holds a character
\* other than whitespace, the stretch from its first such character to its
\* last, in the order of the text.
NonBlankEntries(t) ==
    LET n == Len(t)
        Cuts == {0, n + 1} \cup {p \in 1..n : t[p] = ","}
        NextCut(lo) == CHOOSE c \in Cuts : c > lo /\ \A d \in Cuts : d > lo => c <= d
        Inked(lo) == {m \in (lo + 1)..(NextCut(lo) - 1) : t[m] \notin WS}
        Starts == {lo \in Cuts \ {n + 1} : Inked(lo) # {}}
        Nth(j) == CHOOSE lo \in Starts : Cardinality({x \in Starts : x < lo}) = j - 1
        Trimmed(lo) ==
            SubSeq(t, CHOOSE m \in Inked(lo) : \A o \in Inked(lo) : m <= o,
                      CHOOSE m \in Inked(lo) : \A o \in Inked(lo) : o <= m)
    IN [j \in 1..Cardinality(Starts) |-> Trimmed(Nth(j))]

\* sub is a stretch of s
IsWithin(sub, s) ==
    \E a \in 0..(Len(s) - Len(sub)) : SubSeq(s, a + 1, a + Len(sub)) = sub

\* the chunk is one the parser recognizes: "Name <email>" or a bare email
Recognized(raw) == fullmatch(raw) # <<>> \/ is_bare_email(email_candidate(raw))

RECURSIVE Accounted(_, _, _)
\* Going through the entries in order, each recognized one is answered by
\* the next contact, whose email is read from it, and each other one by the
\* next warning, which names it; no contact and no warning is left over.
Accounted(es, cs, ws) ==
    IF es = <<>> THEN cs = <<>> /\ ws = <<>>
    ELSE IF Recognized(Head(es))
    THEN /\ cs # <<>>
         /\ IsWithin(Head(cs).email, Head(es))
         /\ Accounted(Tail(es), Tail(cs), ws)
    ELSE /\ ws # <<>>
         /\ Head(ws) = Head(es)
         /\ Accounted(Tail(es), cs, Tail(ws))

\* the texts of the warnings printed, in order
Warnings ==
    LET w == SelectSeq(log, LAMBDA e : e[1] = "warning")
    IN [n \in 1..Len(w) |-> w[n][2]]

\* C9: parse_contacts puts every comma-separated chunk into exactly one
\* outcome and never raises: an empty or whitespace chunk gives no Contact and
\* no warning, a recognized chunk one Contact and no warning, an unrecognized
\* chunk no Contact and one warning naming it; the Contacts come in the order
\* of their chunks.
C9_EveryChunkOneOutcome ==
    /\ pc \in {"load_contacts_from_file", "parse_contacts", "loaded"}
    /\ exc = "none"
    /\ pc \in {"parse_contacts", "loaded"} =>
           /\ chunks = NonBlankEntries(text)
           /\ k - 1 <= Len(chunks)
           /\ Len(contacts) + Len(Warnings) = k - 1
           /\ Len(log) = Len(Warnings)
           /\ Accounted(SubSeq(chunks, 1, k - 1), contacts, Warnings)
    /\ pc = "loaded" => k - 1 = Len(chunks)

\* a text with a recognized entry, a blank one and an unrecognized one
C9_Witness ==
    /\ pc = "loaded"
    /\ Len(Split(text, ",")) = 3
    /\ Len(chunks) = 2
    /\ Len(contacts) = 1
    /\ Len(Warnings) = 1

-----------------------------------------------------------------------------
(* C10 *)

\* the condition the claim gives for a bare email: exactly one "@" and no
\* whitespace inside
ExactlyOneAt(cand) ==
    /\ Cardinality({n \in 1..Len(cand) : cand[n] = "@"}) = 1
    /\ \A n \in 1..Len(cand) : cand[n] \notin WS

\* what the claim says of one turn of the loop on the chunk raw
BareEmailTurn(raw) ==
    LET cand == email_candidate(raw)
    IN IF ExactlyOneAt(cand)
       THEN /\ contacts' = Append(contacts, Contact(inferred(BeforeFirst(cand, "@")), cand))
            /\ log' = log
       ELSE /\ contacts' = contacts
            /\ log' = Append(log, <<"warning", raw>>)

\* C10: for a chunk that does not match "Name <email>", parse_contacts gives
\* a bare-email Contact if and only if the chunk, stripped of "<", ">" and
\* spaces at its ends, holds exactly one "@" and no whitespace inside;
\* otherwise (two "@", an inner tab) the chunk is dropped with a warning. The
\* display name is the text before "@" with "." and "_" replaced by spaces,
\* title-cased.
C10_BareEmailIffExactlyOneAt ==
    [][(pc = "parse_contacts" /\ k <= Len(chunks) /\ fullmatch(chunks[k]) = <<>>)
           => BareEmailTurn(chunks[k])]_vars

=============================================================================
